---- MODULE Spec2Model ----
(***************************************************************************)
(* Model of pkg/util/kubernetes/hpa/hpa.go: the Processor that turns       *)
(* HorizontalPodAutoscaler objects into ExternalMetricValue records        *)
(* (ProcessHPAs), refreshes the records that are no longer fresh           *)
(* (UpdateExternalMetrics) and computes the records to delete              *)
(* (ComputeDeleteExternalMetrics).                                         *)
(***************************************************************************)
EXTENDS Integers, Sequences, FiniteSets, TLC

VARIABLES
    clock,           \* wall clock in seconds, what metav1.Now().Unix() returns
    externalMaxAge,  \* Processor.externalMaxAge, a time.Duration
    store,           \* the records known to the caller, fed to each refresh pass
    hpas,            \* the HorizontalPodAutoscaler objects handed to a call on its own
    failures,        \* per stored record: refresh passes in a row that failed
    last             \* the last call of the Processor: arguments, result, calls

vars == <<clock, externalMaxAge, store, hpas, failures, last>>

----------------------------------------------------------------------------
(* Bounds of the model *)

MaxTime == 3      \* the clock runs from 0 to MaxTime
MaxAgeCfg == 2    \* external_metrics_provider.max_age is drawn from 0..MaxAgeCfg
MaxMetrics == 2   \* entries of hpa.Spec.Metrics
MaxHpas == 2      \* length of the live list handed to the GC
MaxRecords == 3   \* length of the record list handed to the GC

----------------------------------------------------------------------------
(* Data *)

\* the values of external_metrics_provider.max_age the Processor is built with
ConfiguredMaxAges == 0..MaxAgeCfg

\* time.Second as a time.Duration. A time.Duration counts nanoseconds in 64
\* bits; the model counts microseconds, the integers of TLC being 32 bits wide.
Second == 1000000

\* values a successful Datadog query may return
ProviderValues == {1, 2}

\* autoscalingv2.ExternalMetricSourceType and the other MetricSourceType values
ExternalMetricSourceType == "External"

OtherSourceTypes == {"Resource"}

NoLabels == {}

\* metricSpec.External of the entries the model uses: name and MatchLabels
ExternalSources ==
    { [MetricName |-> "m1", MatchLabels |-> {<<"app", "web">>}],
      [MetricName |-> "m2", MatchLabels |-> {<<"app", "db">>}] }

NilExternal == [MetricName |-> "", MatchLabels |-> NoLabels]

\* one entry of hpa.Spec.Metrics
MetricSpecs ==
    { [Type |-> ExternalMetricSourceType, External |-> e] : e \in ExternalSources }
    \cup { [Type |-> t, External |-> NilExternal] : t \in OtherSourceTypes }

\* the identity of the HorizontalPodAutoscaler objects: name, namespace, UID
ObjectReferences ==
    { [Name |-> "web", Namespace |-> "default", UID |-> "A"],
      [Name |-> "api", Namespace |-> "prod", UID |-> "B"],
      [Name |-> "job", Namespace |-> "batch", UID |-> "C"] }

RECURSIVE SeqsUpTo(_, _)
SeqsUpTo(S, n) ==
    IF n = 0 THEN { <<>> }
    ELSE LET shorter == SeqsUpTo(S, n - 1)
         IN  shorter \cup { Append(s, x) : s \in { t \in shorter : Len(t) = n - 1 }, x \in S }

\* a HorizontalPodAutoscaler, as far as the package reads it
HorizontalPodAutoscalers ==
    { [Name |-> o.Name, Namespace |-> o.Namespace, UID |-> o.UID, Metrics |-> ms] :
        o \in ObjectReferences, ms \in SeqsUpTo(MetricSpecs, MaxMetrics) }

\* the object the caller of the refresh loop observes, with any metric list
Observed == { h \in HorizontalPodAutoscalers : h.UID = "A" }

\* custommetrics.ExternalMetricValue
ExternalMetricValue(name, labels, ts, ref, value, valid) ==
    [MetricName |-> name, Labels |-> labels, Timestamp |-> ts,
     HPA |-> ref, Value |-> value, Valid |-> valid]

\* the key the store upserts on
Key(em) == <<em.HPA.UID, em.MetricName>>

----------------------------------------------------------------------------
(* The Datadog query and the validator *)

\* what queryDatadogExternal may return: (val, err)
QueryResults ==
    { [val |-> 0, err |-> TRUE] } \cup { [val |-> v, err |-> FALSE] : v \in ProviderValues }

\* variant of the validator: the error is returned with valid set
validateExternalMetricValidOnError(q) ==
    [value |-> q.val, valid |-> TRUE, err |-> q.err]

\* validateExternalMetric, given what its one query returned
validateExternalMetric(q) ==
    IF q.err
    THEN [value |-> q.val, valid |-> FALSE, err |-> TRUE]
    ELSE [value |-> q.val, valid |-> TRUE, err |-> FALSE]

\* one call of the validator, as the call log keeps it
Call(i, em, q) ==
    [idx |-> i, metricName |-> em.MetricName, labels |-> em.Labels, query |-> q]

----------------------------------------------------------------------------
(* NewProcessor *)

\* Processor for a configured external_metrics_provider.max_age
NewProcessor(cfgMaxAge) == [externalMaxAge |-> cfgMaxAge * Second]

\* time.Duration.Seconds() truncated to int64
DurationSeconds(d) == d \div Second

----------------------------------------------------------------------------
(* UpdateExternalMetrics *)

\* variants of the test of line 64: the age bound excluded; a maximum age of
\* zero read as "never fresh"; the valid flag not read
IsFreshStrict(em, now, maxAge) == now - em.Timestamp < maxAge /\ em.Valid

IsFreshZeroForces(em, now, maxAge) ==
    maxAge > 0 /\ now - em.Timestamp <= maxAge /\ em.Valid

IsFreshAgeOnly(em, now, maxAge) == now - em.Timestamp <= maxAge

\* the test of line 64
\* variant of the test: a valid record is skipped whatever its age
IsFreshValidOnly(em, now, maxAge) == em.Valid

IsFresh(em, now, maxAge) == now - em.Timestamp <= maxAge /\ em.Valid

\* variant of lines 67-69: the timestamp is set only when the validation succeeds
RevalidateStampOnSuccess(em, stampAt, res) ==
    [em EXCEPT !.Valid = res.valid,
               !.Timestamp = IF res.valid THEN stampAt ELSE @,
               !.Value = res.value]

\* variant of lines 67-69: a failed query resets the timestamp
RevalidateZeroOnFailure(em, stampAt, res) ==
    [em EXCEPT !.Timestamp = IF res.valid THEN stampAt ELSE 0,
               !.Value = res.value, !.Valid = res.valid]

\* lines 67-69: the loop's copy of the record after the revalidation at stampAt
Revalidate(em, stampAt, res) ==
    [em EXCEPT !.Valid = res.valid, !.Timestamp = stampAt, !.Value = res.value]

\* variant of the loop body: a fresh record is returned too
UpdateOneKeepFresh(maxAge, em, i, advs, qs, acc) ==
    LET checkAt == acc.now + advs[i][1]
    IN  IF IsFresh(em, checkAt, maxAge)
        THEN [acc EXCEPT !.now = checkAt,
                         !.updated = Append(@, em),
                         !.trace = Append(@, [fresh |-> TRUE, checkAt |-> checkAt,
                                              stampAt |-> checkAt])]
        ELSE LET stampAt == checkAt + advs[i][2]
                 q == qs[i]
                 res == validateExternalMetric(q)
             IN  [acc EXCEPT !.now = stampAt,
                             !.calls = Append(@, Call(i, em, q)),
                             !.updated = Append(@, Revalidate(em, stampAt, res)),
                             !.trace = Append(@, [fresh |-> FALSE, checkAt |-> checkAt,
                                                  stampAt |-> stampAt])]

\* variant of the loop body: a query that fails is made a second time
UpdateOneRetry(maxAge, em, i, advs, qs, acc) ==
    LET checkAt == acc.now + advs[i][1]
    IN  IF IsFresh(em, checkAt, maxAge)
        THEN [acc EXCEPT !.now = checkAt,
                         !.trace = Append(@, [fresh |-> TRUE, checkAt |-> checkAt,
                                              stampAt |-> checkAt])]
        ELSE LET stampAt == checkAt + advs[i][2]
                 q == qs[i]
                 res == validateExternalMetric(q)
                 em2 == Revalidate(em, stampAt, res)
                 once == Append(acc.calls, Call(i, em, q))
             IN  [acc EXCEPT !.now = stampAt,
                             !.calls = IF q.err THEN Append(once, Call(i, em, q))
                                        ELSE once,
                             !.updated = Append(@, em2),
                             !.trace = Append(@, [fresh |-> FALSE, checkAt |-> checkAt,
                                                  stampAt |-> stampAt])]

\* variant of the loop body: the loop works on the element of the caller's
\* slice, not on a copy of it
UpdateOneInPlace(maxAge, em, i, advs, qs, acc) ==
    LET checkAt == acc.now + advs[i][1]
    IN  IF IsFresh(em, checkAt, maxAge)
        THEN [acc EXCEPT !.now = checkAt,
                         !.trace = Append(@, [fresh |-> TRUE, checkAt |-> checkAt,
                                              stampAt |-> checkAt])]
        ELSE LET stampAt == checkAt + advs[i][2]
                 q == qs[i]
                 res == validateExternalMetric(q)
                 em2 == Revalidate(em, stampAt, res)
             IN  [acc EXCEPT !.now = stampAt,
                             !.emList = [@ EXCEPT ![i] = em2],
                             !.calls = Append(@, Call(i, em, q)),
                             !.updated = Append(@, em2),
                             !.trace = Append(@, [fresh |-> FALSE, checkAt |-> checkAt,
                                                  stampAt |-> stampAt])]

\* One iteration of the loop, for emList[i]. acc is the state of the call so
\* far; advs[i] = <<a, b>> the seconds the clock advanced before each of the
\* two clock reads; qs[i] what the Datadog query returns if it is made.
UpdateOne(maxAge, em, i, advs, qs, acc) ==
    LET checkAt == acc.now + advs[i][1]
    IN  IF IsFresh(em, checkAt, maxAge)
        THEN [acc EXCEPT !.now = checkAt,
                         !.trace = Append(@, [fresh |-> TRUE, checkAt |-> checkAt,
                                              stampAt |-> checkAt])]
        ELSE LET stampAt == checkAt + advs[i][2]
                 q == qs[i]
                 res == validateExternalMetric(q)
                 em2 == Revalidate(em, stampAt, res)
             IN  [acc EXCEPT !.now = stampAt,
                             !.calls = Append(@, Call(i, em, q)),
                             !.updated = Append(@, em2),
                             !.trace = Append(@, [fresh |-> FALSE, checkAt |-> checkAt,
                                                  stampAt |-> stampAt])]

\* variant of the loop: it returns at the first query that fails
RECURSIVE UpdateLoopStopOnError(_, _, _, _, _, _)
UpdateLoopStopOnError(maxAge, emList, i, advs, qs, acc) ==
    IF i > Len(emList) \/ (acc.calls # <<>> /\ acc.calls[Len(acc.calls)].query.err)
    THEN acc
    ELSE UpdateLoopStopOnError(maxAge, emList, i + 1, advs, qs,
                               UpdateOne(maxAge, emList[i], i, advs, qs, acc))

RECURSIVE UpdateLoop(_, _, _, _, _, _)
UpdateLoop(maxAge, emList, i, advs, qs, acc) ==
    IF i > Len(emList) THEN acc
    ELSE UpdateLoop(maxAge, emList, i + 1, advs, qs,
                    UpdateOne(maxAge, emList[i], i, advs, qs, acc))

\* The whole call. The range loop works on a copy of each element, so the
\* caller's slice is what it was.
UpdateExternalMetrics(p, emList, now, advs, qs) ==
    LET maxAge == DurationSeconds(p.externalMaxAge)
        acc == UpdateLoop(maxAge, emList, 1, advs, qs,
                          [now |-> now, emList |-> emList, updated |-> <<>>,
                           calls |-> <<>>, trace |-> <<>>])
    IN  acc

----------------------------------------------------------------------------
(* ProcessHPAs *)

\* variant of the loop body: the owner is identified by its name
ProcessOneOwnerByName(hpa, metricSpec, i, advs, qs, acc) ==
    IF metricSpec.Type = ExternalMetricSourceType
    THEN LET stampAt == acc.now + advs[i]
             q == qs[i]
             m == ExternalMetricValue(metricSpec.External.MetricName,
                                      metricSpec.External.MatchLabels,
                                      stampAt,
                                      [Name |-> hpa.Name, Namespace |-> hpa.Namespace,
                                       UID |-> hpa.Name],
                                      0, FALSE)
             res == validateExternalMetric(q)
             m2 == [m EXCEPT !.Value = res.value, !.Valid = res.valid]
         IN  [acc EXCEPT !.now = stampAt,
                         !.calls = Append(@, Call(i, m, q)),
                         !.externalMetrics = Append(@, m2)]
    ELSE acc

\* One iteration of the loop of lines 89-110, for metricSpec.
ProcessOne(hpa, metricSpec, i, advs, qs, acc) ==
    IF metricSpec.Type = ExternalMetricSourceType
    THEN LET stampAt == acc.now + advs[i]
             q == qs[i]
             m == ExternalMetricValue(metricSpec.External.MetricName,
                                      metricSpec.External.MatchLabels,
                                      stampAt,
                                      [Name |-> hpa.Name, Namespace |-> hpa.Namespace,
                                       UID |-> hpa.UID],
                                      0, FALSE)
             res == validateExternalMetric(q)
             m2 == [m EXCEPT !.Value = res.value, !.Valid = res.valid]
         IN  [acc EXCEPT !.now = stampAt,
                         !.calls = Append(@, Call(i, m, q)),
                         !.externalMetrics = Append(@, m2)]
    ELSE acc

\* variant of the loop: it returns at the first entry that is not external
RECURSIVE ProcessLoopStopOnUnsupported(_, _, _, _, _)
ProcessLoopStopOnUnsupported(hpa, i, advs, qs, acc) ==
    IF i > Len(hpa.Metrics) \/ hpa.Metrics[i].Type # ExternalMetricSourceType
    THEN acc
    ELSE ProcessLoopStopOnUnsupported(hpa, i + 1, advs, qs,
                                      ProcessOne(hpa, hpa.Metrics[i], i, advs, qs, acc))

RECURSIVE ProcessLoop(_, _, _, _, _)
ProcessLoop(hpa, i, advs, qs, acc) ==
    IF i > Len(hpa.Metrics) THEN acc
    ELSE ProcessLoop(hpa, i + 1, advs, qs,
                     ProcessOne(hpa, hpa.Metrics[i], i, advs, qs, acc))

\* variant: an object without metrics gets a record without name
ProcessHPAsPlaceholder(p, hpa, now, advs, qs) ==
    LET start == [now |-> now, externalMetrics |-> <<>>, calls |-> <<>>,
                  logged |-> FALSE]
    IN  IF Len(hpa.Metrics) = 0
        THEN [start EXCEPT
                !.logged = TRUE,
                !.externalMetrics =
                    <<ExternalMetricValue("", NoLabels, now,
                                          [Name |-> hpa.Name, Namespace |-> hpa.Namespace,
                                           UID |-> hpa.UID],
                                          0, FALSE)>>]
        ELSE ProcessLoop(hpa, 1, advs, qs, start)

\* The whole call: lines 84-87 return nil for an empty metric list, after the
\* error is logged.
ProcessHPAs(p, hpa, now, advs, qs) ==
    LET start == [now |-> now, externalMetrics |-> <<>>, calls |-> <<>>,
                  logged |-> FALSE]
    IN  IF Len(hpa.Metrics) = 0
        THEN [start EXCEPT !.logged = TRUE]
        ELSE ProcessLoop(hpa, 1, advs, qs, start)

----------------------------------------------------------------------------
(* The caller: the store of records *)

RECURSIVE IndexOfKey(_, _, _)
IndexOfKey(s, k, i) ==
    IF i > Len(s) THEN 0
    ELSE IF Key(s[i]) = k THEN i ELSE IndexOfKey(s, k, i + 1)

\* the store after the upsert of the records of recs, in order
RECURSIVE Upsert(_, _)
Upsert(s, recs) ==
    IF recs = <<>> THEN s
    ELSE LET r == Head(recs)
             at == IndexOfKey(s, Key(r), 1)
         IN  Upsert(IF at = 0 THEN Append(s, r) ELSE [s EXCEPT ![at] = r], Tail(recs))

KeysOf(s) == { Key(s[i]) : i \in 1..Len(s) }

\* the store after the records of del are deleted
Remove(s, del) ==
    LET gone(em) == \E k \in 1..Len(del) : Key(del[k]) = Key(em)
        F[i \in 0..Len(s)] ==
            IF i = 0 THEN <<>>
            ELSE IF gone(s[i]) THEN F[i - 1] ELSE Append(F[i - 1], s[i])
    IN  F[Len(s)]

\* per key, the refresh passes in a row, up to this one, that revalidated the
\* record and failed (2 stands for two or more)
FailuresAfter(f, updated) ==
    [k \in DOMAIN f \cup KeysOf(updated) |->
        IF \E i \in 1..Len(updated) : Key(updated[i]) = k
        THEN LET i == CHOOSE j \in 1..Len(updated) : Key(updated[j]) = k
             IN  IF updated[i].Valid THEN 0
                 ELSE IF k \in DOMAIN f /\ f[k] >= 1 THEN 2 ELSE 1
        ELSE 0]

----------------------------------------------------------------------------
(* ComputeDeleteExternalMetrics *)

\* variant of lines 43-46: the map is keyed by the name of the object
UIDsOfByName(list) == { list[i].Name : i \in 1..Len(list) }

\* lines 43-46: the set of the UIDs of list
UIDsOf(list) == { list[i].UID : i \in 1..Len(list) }

\* line 50: em goes to the deleted list
IsOrphan(uids, em) == em.HPA.UID \notin uids

\* variant of the loop: a deleted record is put in front of the list
RECURSIVE DeleteLoopPrepend(_, _, _, _)
DeleteLoopPrepend(uids, emList, i, deleted) ==
    IF i > Len(emList) THEN deleted
    ELSE DeleteLoopPrepend(uids, emList, i + 1,
                           IF IsOrphan(uids, emList[i]) THEN <<emList[i]>> \o deleted
                           ELSE deleted)

\* lines 48-53: the records of emList from i on that go to the deleted list
RECURSIVE DeleteLoop(_, _, _, _)
DeleteLoop(uids, emList, i, deleted) ==
    IF i > Len(emList) THEN deleted
    ELSE DeleteLoop(uids, emList, i + 1,
                    IF IsOrphan(uids, emList[i]) THEN Append(deleted, emList[i])
                    ELSE deleted)

\* variant: the deleted records are collected in the front of the caller's slice
ComputeDeleteInPlace(list, emList) ==
    LET deleted == DeleteLoop(UIDsOf(list), emList, 1, <<>>)
    IN  [list |-> list,
         emList |-> deleted \o SubSeq(emList, Len(deleted) + 1, Len(emList)),
         toDelete |-> deleted,
         calls |-> <<>>]

\* variant: a record is deleted too when no live object declares its metric
ComputeDeleteUndeclared(list, emList) ==
    LET declared(em) ==
            \E i \in 1..Len(list) :
                /\ list[i].UID = em.HPA.UID
                /\ \E j \in 1..Len(list[i].Metrics) :
                      /\ list[i].Metrics[j].Type = ExternalMetricSourceType
                      /\ list[i].Metrics[j].External.MetricName = em.MetricName
        keep == { i \in 1..Len(emList) : ~declared(emList[i]) }
        F[i \in 0..Len(emList)] ==
            IF i = 0 THEN <<>>
            ELSE IF i \in keep THEN Append(F[i - 1], emList[i]) ELSE F[i - 1]
    IN  [list |-> list, emList |-> emList, toDelete |-> F[Len(emList)], calls |-> <<>>]

\* The whole call: what it returns, the two slices of the caller after it and
\* the calls of the validator it made.
ComputeDeleteExternalMetrics(list, emList) ==
    [list |-> list, emList |-> emList,
     toDelete |-> DeleteLoop(UIDsOf(list), emList, 1, <<>>),
     calls |-> <<>>]

----------------------------------------------------------------------------
(* Actions *)

NoCall == [op |-> "none"]

\* what a query that is not made returns
NoQuery == [val |-> 0, err |-> TRUE]

Processor == [externalMaxAge |-> externalMaxAge]

Init ==
    /\ clock = 0
    /\ \E cfg \in ConfiguredMaxAges : externalMaxAge = NewProcessor(cfg).externalMaxAge
    /\ store = <<>>
    /\ hpas = <<>>
    /\ failures = <<>>
    /\ last = NoCall

\* the records of emList a pass starting at now, the clock advancing as advs
\* says, queries Datadog for
Stale(p, emList, now, advs) ==
    LET dry == UpdateExternalMetrics(p, emList, now, advs,
                                     [i \in 1..Len(emList) |-> [val |-> 0, err |-> FALSE]])
    IN  { i \in 1..Len(dry.trace) : ~dry.trace[i].fresh }

\* a reconciliation tick: the records of the store are refreshed and the
\* records returned are written back. advs holds the clock advances before
\* the two clock reads of each record (none before a read that is not made),
\* qs the result of each query made.
Refresh ==
    /\ store # <<>>
    /\ \E advs \in [1..Len(store) -> {0, 1} \X {0, 1}] :
        LET stale == Stale(Processor, store, clock, advs)
        IN  /\ \A i \in 1..Len(store) : i \notin stale => advs[i][2] = 0
            /\ \E qs \in [stale -> QueryResults] :
                LET r == UpdateExternalMetrics(Processor, store, clock, advs, qs)
                IN  /\ r.now <= MaxTime
                    /\ clock' = r.now
                    /\ store' = Upsert(r.emList, r.updated)
                    /\ failures' = FailuresAfter(failures, r.updated)
                    /\ last' = [op |-> "update",
                                maxAge |-> DurationSeconds(externalMaxAge),
                                emList |-> store, emListAfter |-> r.emList,
                                updated |-> r.updated, calls |-> r.calls,
                                trace |-> r.trace,
                                failedBefore |->
                                    { k \in DOMAIN failures : failures[k] >= 1 }]
                    /\ UNCHANGED <<externalMaxAge, hpas>>

\* the entries of hpa.Spec.Metrics for which ProcessHPAs reads the clock and
\* queries Datadog
Queried(hpa) ==
    { i \in 1..Len(hpa.Metrics) : hpa.Metrics[i].Type = ExternalMetricSourceType }

\* a HorizontalPodAutoscaler is observed for the first time: its records are
\* extracted and stored
Observe ==
    \E hpa \in Observed :
        /\ \A i \in 1..Len(store) : store[i].HPA.UID # hpa.UID
        /\ \E advs \in [Queried(hpa) -> {0, 1}],
              qs \in [Queried(hpa) -> QueryResults] :
            LET r == ProcessHPAs(Processor, hpa, clock, advs, qs)
                s2 == Upsert(store, r.externalMetrics)
            IN  /\ r.now <= MaxTime
                /\ clock' = r.now
                /\ store' = s2
                /\ failures' = [k \in KeysOf(s2) |->
                                  IF k \in KeysOf(r.externalMetrics)
                                     \/ k \notin DOMAIN failures
                                  THEN 0 ELSE failures[k]]
                /\ last' = [op |-> "observe"]
                /\ UNCHANGED <<externalMaxAge, hpas>>

Next == Refresh \/ Observe

Spec == Init /\ [][Next]_vars

\* a processor configured with the largest age
InitLive ==
    /\ clock = 0
    /\ externalMaxAge = NewProcessor(MaxAgeCfg).externalMaxAge
    /\ store = <<>>
    /\ hpas = <<>>
    /\ failures = <<>>
    /\ last = NoCall

\* the reconciliation ticks keep occurring
SpecLive == InitLive /\ [][Next]_vars /\ WF_vars(Refresh)

----------------------------------------------------------------------------
(* ProcessHPAs on its own: any object, at any time *)

\* hpas holds the object handed to the call
InitExtract ==
    /\ clock \in 0..MaxTime
    /\ externalMaxAge = NewProcessor(0).externalMaxAge
    /\ store = <<>>
    /\ hpas \in { <<h>> : h \in HorizontalPodAutoscalers }
    /\ failures = <<>>
    /\ last = NoCall

Extract ==
    \E advs \in [Queried(hpas[1]) -> {0, 1}],
       qs \in [Queried(hpas[1]) -> QueryResults] :
        LET hpa == hpas[1]
            r == ProcessHPAs(Processor, hpa, clock, advs, qs)
        IN  /\ r.now <= MaxTime
            /\ clock' = r.now
            /\ last' = [op |-> "process", hpa |-> hpa, startedAt |-> clock,
                        advs |-> advs, qs |-> qs,
                        externalMetrics |-> r.externalMetrics,
                        calls |-> r.calls, logged |-> r.logged]
            /\ UNCHANGED <<externalMaxAge, store, hpas, failures>>

NextExtract == Extract

SpecExtract == InitExtract /\ [][NextExtract]_vars

----------------------------------------------------------------------------
(* ComputeDeleteExternalMetrics on its own: any live list, any record list *)

\* the metric lists of the live objects
LiveMetricLists ==
    { <<[Type |-> ExternalMetricSourceType,
         External |-> [MetricName |-> "m1", MatchLabels |-> {<<"app", "web">>}]]>>,
      <<[Type |-> ExternalMetricSourceType,
         External |-> [MetricName |-> "m1", MatchLabels |-> {<<"app", "web">>}]],
        [Type |-> ExternalMetricSourceType,
         External |-> [MetricName |-> "m2", MatchLabels |-> {<<"app", "db">>}]]>> }

LiveObjects ==
    { [Name |-> o.Name, Namespace |-> o.Namespace, UID |-> o.UID, Metrics |-> ms] :
        o \in ObjectReferences, ms \in LiveMetricLists }

\* a live list holds an object once
LiveLists ==
    { l \in SeqsUpTo(LiveObjects, MaxHpas) :
        \A i, j \in 1..Len(l) : l[i].UID = l[j].UID => i = j }

\* the records a store may hold: extracted from some object at time 0
StoredRecords ==
    { ExternalMetricValue(e.MetricName, e.MatchLabels, 0, o, 1, TRUE) :
        e \in ExternalSources, o \in ObjectReferences }

\* a store holds one record per key
StoredLists ==
    { l \in SeqsUpTo(StoredRecords, MaxRecords) :
        \A i, j \in 1..Len(l) : Key(l[i]) = Key(l[j]) => i = j }

InitGC ==
    /\ clock = 0
    /\ externalMaxAge = NewProcessor(0).externalMaxAge
    /\ hpas \in LiveLists
    /\ store \in StoredLists
    /\ failures = <<>>
    /\ last = NoCall

\* the live list changed: the records to delete are computed
GC ==
    LET r == ComputeDeleteExternalMetrics(hpas, store)
    IN  /\ hpas' = r.list
        /\ store' = r.emList
        /\ last' = [op |-> "gc", list |-> hpas, emList |-> store,
                    toDelete |-> r.toDelete, calls |-> r.calls,
                    prev |-> last.op]
        /\ UNCHANGED <<clock, externalMaxAge, failures>>

\* the records the last call returned are deleted from the store
Delete ==
    /\ last.op = "gc"
    /\ last.toDelete # <<>>
    /\ store' = Remove(store, last.toDelete)
    /\ last' = [op |-> "delete", emList |-> store, toDelete |-> last.toDelete]
    /\ UNCHANGED <<clock, externalMaxAge, hpas, failures>>

NextGC == GC \/ Delete

SpecGC == InitGC /\ [][NextGC]_vars

----------------------------------------------------------------------------
(* Properties of a refresh pass (UpdateExternalMetrics), read off the last call *)

IsUpdate == last.op = "update"

Inputs == 1..Len(last.emList)

\* the clock read by the test of line 64 for record i, and by line 68
CheckAt(i) == last.trace[i].checkAt

StampAt(i) == last.trace[i].stampAt

\* fresh as the specification defines it, at the time record i is examined
FreshAt(i) ==
    /\ last.emList[i].Valid
    /\ CheckAt(i) - last.emList[i].Timestamp <= last.maxAge

\* the calls of the validator made for record i
CallsFor(i) == { k \in 1..Len(last.calls) : last.calls[k].idx = i }

\* where record i is in the output if every record that is not fresh is returned
OutIdx(i) == Cardinality({ j \in 1..i : ~FreshAt(j) })

\* record i is in the output
Returned(i) ==
    \E k \in 1..Len(last.updated) : Key(last.updated[k]) = Key(last.emList[i])

\* C1: in a refresh pass a record is skipped iff it is valid and its age at
\* the time of the test is at most maxAge (the bound included); a fresh record
\* gets no provider call, keeps its fields and is not in the output.
C1_FreshUntouched ==
    IsUpdate =>
        \A i \in Inputs :
            /\ FreshAt(i) <=> CallsFor(i) = {}
            /\ FreshAt(i) =>
                  /\ last.emListAfter[i] = last.emList[i]
                  /\ store[i] = last.emList[i]
                  /\ ~Returned(i)

\* a pass with maxAge = M >= 1 over a valid record of age M, skipped, and a
\* valid record of age M + 1, revalidated
C1_Witness ==
    /\ IsUpdate
    /\ last.maxAge >= 1
    /\ \E i, j \in Inputs :
          /\ last.emList[i].Valid /\ last.emList[j].Valid
          /\ CheckAt(i) - last.emList[i].Timestamp = last.maxAge
          /\ CheckAt(j) - last.emList[j].Timestamp = last.maxAge + 1
          /\ CallsFor(i) = {} /\ ~Returned(i)
          /\ CallsFor(j) # {} /\ Returned(j)

\* C2: every record that is not fresh is revalidated with exactly one call of
\* the validator, made for its metric name and labels; the record returned
\* has the value and the valid flag of that call and the time read at line 68
\* as its timestamp, whether the call failed or not.
C2_Revalidated ==
    IsUpdate =>
        \A i \in Inputs :
            ~FreshAt(i) =>
                /\ Cardinality(CallsFor(i)) = 1
                /\ OutIdx(i) \in 1..Len(last.updated)
                /\ LET c == last.calls[CHOOSE k \in CallsFor(i) : TRUE]
                       res == validateExternalMetric(c.query)
                       em == last.emList[i]
                       out == last.updated[OutIdx(i)]
                   IN  /\ c.metricName = em.MetricName /\ c.labels = em.Labels
                       /\ out.Value = res.value
                       /\ out.Valid = res.valid
                       /\ out.Timestamp = StampAt(i)
                       /\ CheckAt(i) <= StampAt(i) /\ StampAt(i) <= clock
                       /\ out.MetricName = em.MetricName /\ out.Labels = em.Labels
                       /\ out.HPA = em.HPA

\* a pass that revalidated an invalid record and a valid one past maxAge, one
\* call failing, and that moved the timestamp of the failed record
C2_Witness ==
    /\ IsUpdate
    /\ \E i, j \in Inputs :
          /\ ~last.emList[i].Valid
          /\ last.emList[j].Valid /\ ~FreshAt(j)
          /\ Cardinality(CallsFor(i)) = 1 /\ Cardinality(CallsFor(j)) = 1
          /\ \E k \in CallsFor(i) \cup CallsFor(j) :
                /\ last.calls[k].query.err
                /\ last.emList[last.calls[k].idx].Timestamp < StampAt(last.calls[k].idx)
                /\ ~last.updated[OutIdx(last.calls[k].idx)].Valid

\* C3: the output of a refresh pass is the subsequence of its input made of
\* the records that are not fresh: as many entries as there are such records,
\* each the record of the same owner and metric, in input order.
C3_OutputIsTouched ==
    IsUpdate =>
        /\ Len(last.updated) = Cardinality({ i \in Inputs : ~FreshAt(i) })
        /\ \A i \in Inputs :
              ~FreshAt(i) => Key(last.updated[OutIdx(i)]) = Key(last.emList[i])
        /\ \A k \in 1..Len(last.updated) :
              \E i \in Inputs : ~FreshAt(i) /\ OutIdx(i) = k
        /\ \A i \in Inputs : FreshAt(i) => ~Returned(i)

\* a pass over a fresh record followed by a record that is not: the output
\* holds the second alone
C3_Witness ==
    /\ IsUpdate
    /\ Len(last.emList) = 2
    /\ FreshAt(1) /\ ~FreshAt(2)
    /\ Len(last.updated) = 1
    /\ Key(last.updated[1]) = Key(last.emList[2])

\* C4, as claimed: with maxAge = 0 every record of the input is revalidated
\* and returned.
C4_ZeroMaxAgeRevalidatesAll ==
    (IsUpdate /\ last.maxAge = 0) =>
        /\ \A i \in Inputs : Cardinality(CallsFor(i)) = 1
        /\ Len(last.updated) = Len(last.emList)

\* C4, amended: with maxAge = 0 a record is skipped iff it is valid and its
\* timestamp is not before the time of the test; every record that is invalid
\* or was stamped in an earlier second is revalidated and returned.
C4_ZeroMaxAge ==
    (IsUpdate /\ last.maxAge = 0) =>
        \A i \in Inputs :
            LET skipped == last.emList[i].Valid /\ last.emList[i].Timestamp >= CheckAt(i)
            IN  /\ skipped => CallsFor(i) = {} /\ ~Returned(i)
                /\ ~skipped => Cardinality(CallsFor(i)) = 1 /\ Returned(i)

\* a pass with maxAge = 0 that skipped a valid record stamped in the second of
\* the test and revalidated a valid record stamped a second earlier
C4_Witness ==
    /\ IsUpdate
    /\ last.maxAge = 0
    /\ \E i, j \in Inputs :
          /\ last.emList[i].Valid /\ last.emList[i].Timestamp = CheckAt(i)
          /\ CallsFor(i) = {}
          /\ last.emList[j].Valid /\ last.emList[j].Timestamp = CheckAt(j) - 1
          /\ CallsFor(j) # {}

\* C8: an invalid record is revalidated by every pass, whatever its age: it
\* gets one call, the record returned carries the time read at line 68, and
\* it stays invalid when the call fails again.
C8_FailedAdvances ==
    IsUpdate =>
        \A i \in Inputs :
            ~last.emList[i].Valid =>
                /\ Cardinality(CallsFor(i)) = 1
                /\ Returned(i)
                /\ last.updated[OutIdx(i)].Timestamp = StampAt(i)
                /\ store[i].Timestamp = StampAt(i)
                /\ last.calls[CHOOSE k \in CallsFor(i) : TRUE].query.err
                      => ~last.updated[OutIdx(i)].Valid /\ ~store[i].Valid

\* the second of two passes in a row in which the query for a record failed,
\* less than maxAge after the first, the timestamp moving again
C8_Witness ==
    /\ IsUpdate
    /\ \E i \in Inputs :
          /\ failures[Key(last.emList[i])] = 2
          /\ ~last.emList[i].Valid
          /\ StampAt(i) - last.emList[i].Timestamp < last.maxAge
          /\ StampAt(i) > last.emList[i].Timestamp
          /\ ~store[i].Valid /\ store[i].Timestamp = StampAt(i)

\* C9: a query that fails does not end the pass: every record of the input is
\* examined, the record of the failed query is returned invalid with the time
\* read at line 68, and every other record that is not fresh is returned with
\* the result of its own query.
C9_ErrorIsolated ==
    IsUpdate =>
        /\ Len(last.trace) = Len(last.emList)
        /\ \A k \in 1..Len(last.calls) :
              last.calls[k].query.err =>
                  LET i == last.calls[k].idx
                  IN  /\ Returned(i)
                      /\ ~last.updated[OutIdx(i)].Valid
                      /\ last.updated[OutIdx(i)].Timestamp = StampAt(i)
                      /\ \A j \in Inputs \ {i} :
                            ~FreshAt(j) =>
                                \E n \in CallsFor(j) :
                                    /\ Returned(j)
                                    /\ last.updated[OutIdx(j)].Valid = ~last.calls[n].query.err
                                    /\ last.updated[OutIdx(j)].Value = last.calls[n].query.val

\* a pass in which the query of the first record failed and the query of the
\* second succeeded
C9_Witness ==
    /\ IsUpdate
    /\ Len(last.calls) = 2
    /\ last.calls[1].idx = 1 /\ last.calls[1].query.err
    /\ last.calls[2].idx = 2 /\ ~last.calls[2].query.err
    /\ Len(last.updated) = 2
    /\ ~last.updated[1].Valid /\ last.updated[2].Valid

----------------------------------------------------------------------------
(* Properties of ComputeDeleteExternalMetrics, read off the last call *)

IsGC == last.op = "gc"

LiveUIDs == { last.list[i].UID : i \in 1..Len(last.list) }

\* record i of the list handed to the call is in the list it returned
Deleted(i) == \E k \in 1..Len(last.toDelete) : last.toDelete[k] = last.emList[i]

\* the live object that owns record i declares its metric
Declared(i) ==
    \E h \in 1..Len(last.list) :
        /\ last.list[h].UID = last.emList[i].HPA.UID
        /\ \E j \in 1..Len(last.list[h].Metrics) :
              /\ last.list[h].Metrics[j].Type = ExternalMetricSourceType
              /\ last.list[h].Metrics[j].External.MetricName = last.emList[i].MetricName

\* C5: a record is in the deletion list iff the UID of its owner is the UID
\* of no live object, and the deletion list holds stored records only.
C5_DeleteIffOrphan ==
    IsGC =>
        /\ \A i \in 1..Len(last.emList) :
              Deleted(i) <=> last.emList[i].HPA.UID \notin LiveUIDs
        /\ \A k \in 1..Len(last.toDelete) :
              \E i \in 1..Len(last.emList) : last.toDelete[k] = last.emList[i]

\* live UIDs {A, B}, records owned by A, B and C: the record of C alone is
\* returned
C5_Witness ==
    /\ IsGC
    /\ LiveUIDs = {"A", "B"}
    /\ { last.emList[i].HPA.UID : i \in 1..Len(last.emList) } = {"A", "B", "C"}
    /\ Len(last.emList) = 3
    /\ Len(last.toDelete) = 1
    /\ last.toDelete[1].HPA.UID = "C"

\* C6: the call queries nothing and leaves the two lists of its caller as
\* they were, and a second call on them returns what the first returned.
C6_PureIdempotent ==
    IsGC =>
        /\ last.calls = <<>>
        /\ hpas = last.list
        /\ store = last.emList
        /\ ComputeDeleteExternalMetrics(hpas, store).toDelete = last.toDelete

\* a call that returned some records and kept others
C6_Witness ==
    /\ IsGC
    /\ last.toDelete # <<>>
    /\ Len(last.toDelete) < Len(last.emList)
    /\ ~Deleted(1)

\* C7, as claimed: a record whose owner is live and no longer declares its
\* metric is in the deletion list.
C7_UndeclaredDeleted ==
    IsGC =>
        \A i \in 1..Len(last.emList) :
            (last.emList[i].HPA.UID \in LiveUIDs /\ ~Declared(i)) => Deleted(i)

\* C7, amended: a record whose owner is live is never in the deletion list,
\* whether the owner still declares its metric or not.
C7_LiveOwnerKept ==
    IsGC =>
        \A i \in 1..Len(last.emList) :
            last.emList[i].HPA.UID \in LiveUIDs => ~Deleted(i)

\* a call over a record whose owner is live and declares another metric only:
\* the record is kept
C7_Witness ==
    /\ IsGC
    /\ \E i \in 1..Len(last.emList) :
          /\ last.emList[i].HPA.UID \in LiveUIDs
          /\ ~Declared(i)
          /\ ~Deleted(i)

----------------------------------------------------------------------------
(* Properties of ProcessHPAs, read off the last call *)

IsProcess == last.op = "process"

\* the entries of the metric list of the object that are external
ExternalEntries ==
    { i \in 1..Len(last.hpa.Metrics) :
        last.hpa.Metrics[i].Type = ExternalMetricSourceType }

\* where the record of entry i is if each external entry before it gave one
ExtRank(i) == Cardinality({ j \in ExternalEntries : j <= i })

\* C10: the call returns one record per external entry, in the order of the
\* metric list, and none for another entry, wherever that entry is.
C10_ExternalOnly ==
    IsProcess =>
        /\ Len(last.externalMetrics) = Cardinality(ExternalEntries)
        /\ \A i \in ExternalEntries :
              /\ ExtRank(i) \in 1..Len(last.externalMetrics)
              /\ last.externalMetrics[ExtRank(i)].MetricName
                    = last.hpa.Metrics[i].External.MetricName
              /\ last.externalMetrics[ExtRank(i)].Labels
                    = last.hpa.Metrics[i].External.MatchLabels

\* the object declares an entry of another type and then an external entry:
\* one record, that of the second entry
C10_Witness ==
    /\ IsProcess
    /\ Len(last.hpa.Metrics) = 2
    /\ last.hpa.Metrics[1].Type # ExternalMetricSourceType
    /\ last.hpa.Metrics[2].Type = ExternalMetricSourceType
    /\ Len(last.externalMetrics) = 1
    /\ last.externalMetrics[1].MetricName = last.hpa.Metrics[2].External.MetricName

\* C11: for an object whose metric list is empty the call returns no record,
\* queries nothing, reads no clock, and ends with the error logged.
C11_EmptyMetricList ==
    (IsProcess /\ Len(last.hpa.Metrics) = 0) =>
        /\ last.externalMetrics = <<>>
        /\ last.calls = <<>>
        /\ last.logged
        /\ clock = last.startedAt

\* a call for an object without metrics
C11_Witness ==
    /\ IsProcess
    /\ last.hpa.Metrics = <<>>
    /\ last.externalMetrics = <<>>
    /\ last.logged

\* the clock read at line 94 for entry i: the clock at the start of the call
\* and the advances before the reads made so far
ReadAt(i) ==
    LET upTo == { j \in ExternalEntries : j <= i }
        Sum[S \in SUBSET upTo] ==
            IF S = {} THEN 0
            ELSE LET j == CHOOSE x \in S : TRUE IN last.advs[j] + Sum[S \ {j}]
    IN  last.startedAt + Sum[upTo]

\* C12: the record of an external entry has the name, namespace and UID of
\* the object as owner, the metric name and labels of the entry, the time
\* read at line 94 as timestamp and the value and valid flag of the one call
\* of the validator made for it; there is one call per external entry, in
\* order, and no other.
C12_RecordFields ==
    IsProcess =>
        /\ Len(last.calls) = Cardinality(ExternalEntries)
        /\ Len(last.externalMetrics) = Cardinality(ExternalEntries)
        /\ \A i \in ExternalEntries :
              LET em == last.externalMetrics[ExtRank(i)]
                  c == last.calls[ExtRank(i)]
                  entry == last.hpa.Metrics[i].External
              IN  /\ em.HPA = [Name |-> last.hpa.Name,
                               Namespace |-> last.hpa.Namespace,
                               UID |-> last.hpa.UID]
                  /\ em.MetricName = entry.MetricName
                  /\ em.Labels = entry.MatchLabels
                  /\ em.Timestamp = ReadAt(i)
                  /\ last.startedAt <= em.Timestamp /\ em.Timestamp <= clock
                  /\ c.idx = i /\ c.query = last.qs[i]
                  /\ c.metricName = entry.MetricName /\ c.labels = entry.MatchLabels
                  /\ em.Value = last.qs[i].val
                  /\ em.Valid = ~last.qs[i].err

\* a call for the object "api" with two external entries, the first query
\* failing and the second succeeding a second later
C12_Witness ==
    /\ IsProcess
    /\ last.hpa.UID = "B"
    /\ Len(last.hpa.Metrics) = 2
    /\ Len(last.externalMetrics) = 2
    /\ ~last.externalMetrics[1].Valid /\ last.externalMetrics[2].Valid
    /\ last.externalMetrics[2].Timestamp = last.externalMetrics[1].Timestamp + 1
    /\ last.externalMetrics[1].HPA.Name = "api"

\* C15: the validator makes the one query of its call and returns valid with
\* no error iff the query succeeded, and not valid with the error when it
\* failed: never valid together with an error.
C15_ValidatorResult ==
    IsProcess =>
        \A k \in 1..Len(last.calls) :
            LET q == last.calls[k].query
                res == validateExternalMetric(q)
            IN  /\ Cardinality({ n \in 1..Len(last.calls) :
                                   last.calls[n].idx = last.calls[k].idx }) = 1
                /\ res.valid <=> ~q.err
                /\ res.err <=> q.err
                /\ ~(res.valid /\ res.err)
                /\ res.value = q.val
                /\ last.externalMetrics[k].Valid = res.valid

\* a call in which one query failed and one succeeded
C15_Witness ==
    /\ IsProcess
    /\ \E k, n \in 1..Len(last.calls) :
          /\ last.calls[k].query.err /\ ~last.externalMetrics[k].Valid
          /\ ~last.calls[n].query.err /\ last.externalMetrics[n].Valid

----------------------------------------------------------------------------
(* Successive refresh passes *)

\* the timestamp of the record of key k in the list s, 0 if there is none
TimestampOf(s, k) ==
    IF k \in KeysOf(s) THEN s[IndexOfKey(s, k, 1)].Timestamp ELSE 0

\* C13: across the passes, each fed the records the passes before produced,
\* the timestamp of a record never decreases: no step leaves a record with a
\* timestamp smaller than the one it had before the step, and no pass returns
\* a record with a timestamp smaller than the one it was given.
C13_TimestampMonotone ==
    [][/\ \A k \in KeysOf(store) :
             /\ k \in KeysOf(store')
             /\ TimestampOf(store', k) >= TimestampOf(store, k)
       /\ last'.op = "update" =>
             \A j \in 1..Len(last'.updated) :
                 last'.updated[j].Timestamp
                     >= TimestampOf(last'.emList, Key(last'.updated[j]))]_vars

\* a pass after which a record that was revalidated before carries a later
\* timestamp, its query having failed
C13_Witness ==
    /\ IsUpdate
    /\ \E i \in Inputs :
          /\ ~FreshAt(i)
          /\ last.emList[i].Timestamp > 0
          /\ ~last.updated[OutIdx(i)].Valid
          /\ last.updated[OutIdx(i)].Timestamp > last.emList[i].Timestamp
          /\ TimestampOf(store, Key(last.emList[i])) = last.updated[OutIdx(i)].Timestamp

\* the revalidation of record i in the pass before this one failed, at the
\* time its timestamp says, and this pass examines it while its age is at
\* most maxAge
FailedAndYoung(i) ==
    /\ Key(last.emList[i]) \in last.failedBefore
    /\ ~last.emList[i].Valid
    /\ CheckAt(i) - last.emList[i].Timestamp <= last.maxAge

\* C14 as stated: a record whose revalidation failed gets one call at most in
\* a pass, and none in a later pass that examines it while its age is at most
\* maxAge.
C14_NoCallWhileYoung ==
    IsUpdate =>
        \A i \in Inputs :
            /\ Cardinality(CallsFor(i)) <= 1
            /\ FailedAndYoung(i) => CallsFor(i) = {}

\* C14: a record gets one provider call at most in a pass, so a revalidation
\* that failed is not retried in the same pass; the next pass queries the
\* record again, once, whatever its age.
C14_OneCallPerPass ==
    IsUpdate =>
        \A i \in Inputs :
            /\ Cardinality(CallsFor(i)) <= 1
            /\ ~last.emList[i].Valid => Cardinality(CallsFor(i)) = 1
            /\ \A k \in CallsFor(i) :
                  last.calls[k].query.err =>
                      /\ ~last.updated[OutIdx(i)].Valid
                      /\ last.updated[OutIdx(i)].Timestamp = StampAt(i)

\* a pass that queries, once and again without success, a record whose
\* revalidation failed in the pass before and whose age is at most maxAge
C14_Witness ==
    /\ IsUpdate
    /\ \E i \in Inputs :
          /\ FailedAndYoung(i)
          /\ last.maxAge >= 1
          /\ Cardinality(CallsFor(i)) = 1
          /\ \A k \in CallsFor(i) : last.calls[k].query.err
          /\ failures[Key(last.emList[i])] = 2

\* C16 as stated: after a pass the list the caller passed in carries, for
\* every record that was not fresh, the value, valid flag and timestamp of the
\* revalidation.
C16_MutatedInPlace ==
    IsUpdate =>
        \A i \in Inputs :
            ~FreshAt(i) =>
                /\ last.emListAfter[i].Value = last.updated[OutIdx(i)].Value
                /\ last.emListAfter[i].Valid = last.updated[OutIdx(i)].Valid
                /\ last.emListAfter[i].Timestamp = last.updated[OutIdx(i)].Timestamp

\* C16: a pass leaves the list the caller passed in as it was; the value,
\* valid flag and timestamp of a revalidation are carried by the returned list
\* only.
C16_InputUnchanged ==
    IsUpdate =>
        /\ last.emListAfter = last.emList
        /\ \A i \in Inputs :
              ~FreshAt(i) =>
                  \A k \in CallsFor(i) :
                      /\ last.updated[OutIdx(i)].Value = last.calls[k].query.val
                      /\ last.updated[OutIdx(i)].Valid = ~last.calls[k].query.err
                      /\ last.updated[OutIdx(i)].Timestamp = StampAt(i)

\* a pass that revalidated a record with success at a later time: the record
\* returned differs from the record of the caller's list, which is as before
C16_Witness ==
    /\ IsUpdate
    /\ \E i \in Inputs :
          /\ ~FreshAt(i)
          /\ ~last.emList[i].Valid
          /\ last.updated[OutIdx(i)].Valid
          /\ last.updated[OutIdx(i)].Timestamp > last.emList[i].Timestamp
          /\ last.emListAfter[i] = last.emList[i]

\* C17 as stated: at the end of a pass every valid record of the store has an
\* age, at the clock of the end of the pass, of maxAge at most.
C17_FreshAtEndOfPass ==
    IsUpdate =>
        \A i \in 1..Len(store) :
            store[i].Valid => clock - store[i].Timestamp <= last.maxAge

\* C17: after a pass whose output is upserted into the store, every valid
\* record of the store had an age of maxAge at most at the time the pass
\* examined it: it was skipped as fresh at that time or it carries the time
\* of its revalidation in this pass; a valid record older than maxAge at that
\* time is not in the store as it was.
C17_FreshWhenExamined ==
    IsUpdate =>
        /\ Len(store) = Len(last.emList)
        /\ \A i \in Inputs :
              /\ Key(store[i]) = Key(last.emList[i])
              /\ store[i].Valid =>
                    /\ CheckAt(i) - store[i].Timestamp <= last.maxAge
                    /\ \/ FreshAt(i) /\ store[i] = last.emList[i]
                       \/ ~FreshAt(i) /\ store[i].Timestamp = StampAt(i)
              /\ (last.emList[i].Valid
                    /\ CheckAt(i) - last.emList[i].Timestamp > last.maxAge)
                    => /\ CallsFor(i) # {}
                       /\ store[i].Timestamp = StampAt(i)

\* the end of a pass that skipped a valid record whose age was maxAge and
\* revalidated with success a valid record older than maxAge, the clock
\* having advanced since the first was examined
C17_Witness ==
    /\ IsUpdate
    /\ \E i, j \in Inputs :
          /\ i # j
          /\ FreshAt(i) /\ store[i].Valid
          /\ CheckAt(i) - store[i].Timestamp = last.maxAge
          /\ clock - store[i].Timestamp > last.maxAge
          /\ last.emList[j].Valid /\ ~FreshAt(j)
          /\ store[j].Valid /\ store[j].Timestamp = StampAt(j)

----------------------------------------------------------------------------
(* ComputeDeleteExternalMetrics and the deletion from the store *)

\* the records of the list handed to the call whose owner is not live
Orphans == { i \in 1..Len(last.emList) : last.emList[i].HPA.UID \notin LiveUIDs }

OrphanRank(i) == Cardinality({ j \in Orphans : j <= i })

\* C18: the list returned is the list of the stored records whose owner is
\* not live, in the order of the store: no record that was not stored, no
\* record twice, and the stored records left out are those with a live owner.
\* Once the records returned are deleted from the store, the call for the
\* same live list returns the empty list.
C18_PartitionAndConverge ==
    IsGC =>
        /\ Len(last.toDelete) = Cardinality(Orphans)
        /\ \A i \in Orphans : last.toDelete[OrphanRank(i)] = last.emList[i]
        /\ \A k, n \in 1..Len(last.toDelete) :
              last.toDelete[k] = last.toDelete[n] => k = n
        /\ \A i \in 1..Len(last.emList) :
              ~Deleted(i) <=> last.emList[i].HPA.UID \in LiveUIDs
        /\ ComputeDeleteExternalMetrics(
               last.list, Remove(last.emList, last.toDelete)).toDelete = <<>>
        /\ last.prev = "delete" =>
              /\ last.toDelete = <<>>
              /\ \A i \in 1..Len(last.emList) : last.emList[i].HPA.UID \in LiveUIDs

\* a call that returned two records out of three
C18_WitnessPartition ==
    /\ IsGC
    /\ Len(last.emList) = 3
    /\ Len(last.toDelete) = 2
    /\ last.toDelete[1] = last.emList[1]
    /\ last.toDelete[2] = last.emList[3]

\* the call made after the deletion of the records the call before returned:
\* records are left in the store and none is returned
C18_Witness ==
    /\ IsGC
    /\ last.prev = "delete"
    /\ last.emList # <<>>
    /\ last.toDelete = <<>>

----------------------------------------------------------------------------
(* Recovery *)

\* no query of the step failed
ProviderUp ==
    /\ last'.op = "update" =>
          \A k \in 1..Len(last'.calls) : ~last'.calls[k].query.err
    /\ last'.op = "observe" =>
          \A i \in 1..Len(store') : i > Len(store) => store'[i].Valid

AllValid == \A i \in 1..Len(store) : store[i].Valid

\* a pass queries every invalid record of the store, once, and a record whose
\* query succeeded is valid in the store with the value of the query
InvalidRevalidated ==
    last'.op = "update" =>
        \A i \in 1..Len(store) :
            ~store[i].Valid =>
                /\ \E k \in 1..Len(last'.calls) :
                      /\ last'.calls[k].idx = i
                      /\ ~last'.calls[k].query.err =>
                            /\ store'[i].Valid
                            /\ store'[i].Value = last'.calls[k].query.val
                            /\ Key(store'[i]) = Key(store[i])
                /\ Cardinality({ k \in 1..Len(last'.calls) :
                                    last'.calls[k].idx = i }) = 1

\* C19: the ticks keep occurring, each pass fed the store the passes before
\* left. Every pass revalidates every invalid record, which becomes valid
\* with the value of the provider when its query succeeds; if from some point
\* on no query fails, then from some point on every record of the store is
\* valid.
C19_Recovery ==
    /\ [][InvalidRevalidated]_vars
    /\ <>[][ProviderUp]_vars => <>[]AllValid

\* the end of a pass that was given a record whose revalidation had failed in
\* the pass before, made no query that failed, and left every record valid
C19_Witness ==
    /\ IsUpdate
    /\ \E i \in Inputs :
          /\ ~last.emList[i].Valid
          /\ Key(last.emList[i]) \in last.failedBefore
    /\ Len(last.emList) >= 2
    /\ \A k \in 1..Len(last.calls) : ~last.calls[k].query.err
    /\ AllValid

====
